---- MODULE Spec2Model ----
(***************************************************************************)
(* A model of getTitlesFromUrls.js: a sitemap is fetched and parsed, each  *)
(* page URL is fetched in turn and its title extracted, and the collected  *)
(* records are written to a CSV file.                                      *)
(*                                                                         *)
(* JavaScript values are tagged records, so that null, undefined, the      *)
(* empty string and the empty array stay distinct and truthiness is        *)
(* computed as the language computes it.  Text is a sequence of            *)
(* characters; page URLs are atoms.                                        *)
(***************************************************************************)
EXTENDS Integers, Sequences, FiniteSets, TLC

\* Bounds of the explored inputs.
MaxUrls == 2         \* <url> children of a sitemap's <urlset>
MaxLocs == 2         \* <loc> children of one <url>
MaxTitles == 2       \* <title> elements of one page
MaxTitleChars == 2   \* characters of title text in one page, all elements together

PageUrls == {"u1", "u2"}
Chars == {" ", "a"}

SeqsUpTo(S, n) == UNION {[1..k -> S] : k \in 0..n}

Range(s) == {s[k] : k \in DOMAIN s}

----------------------------------------------------------------------------
\* JavaScript values.

Null == [tag |-> "null"]
Undefined == [tag |-> "undefined"]
Str(s) == [tag |-> "str", val |-> s]
Arr(s) == [tag |-> "arr", val |-> s]

\* The body of a sitemap response.  kind "empty" is the empty string,
\* "malformed" is text that is not well-formed XML, "other" is a well-formed
\* document whose root is not urlset, "urlset" is a document with root urlset
\* whose url children are given, each as the sequence of its loc texts.
Xml(kind, url) == [tag |-> "xml", kind |-> kind, url |-> url]

\* ToBoolean: what `if (v)` and `!v` test.
Truthy(v) ==
  CASE v.tag = "null" -> FALSE
    [] v.tag = "undefined" -> FALSE
    [] v.tag = "str" -> v.val # <<>>
    [] v.tag = "arr" -> TRUE
    [] v.tag = "xml" -> v.kind # "empty"

----------------------------------------------------------------------------
\* Inputs.

\* process.argv[2]: absent, the empty string, or a URL.
Argv2 == {Undefined, Str(<<>>), Str(<<"s">>)}

UrlElements == SeqsUpTo(PageUrls, MaxLocs)

SitemapBodies ==
  {Xml("empty", <<>>), Xml("malformed", <<>>), Xml("other", <<>>)}
    \cup {Xml("urlset", us) : us \in SeqsUpTo(UrlElements, MaxUrls)}

\* What axios.get(sitemapUrl) settles to: a rejection (network error or
\* non-2xx status) or a response with a body.
SitemapResponses ==
  {[ok |-> FALSE, data |-> Null]} \cup {[ok |-> TRUE, data |-> b] : b \in SitemapBodies}

RECURSIVE TotalLen(_)
TotalLen(ts) == IF ts = <<>> THEN 0 ELSE Len(Head(ts)) + TotalLen(Tail(ts))

\* A fetched page, as the sequence of the texts of its <title> elements in
\* document order.
Documents ==
  {d \in SeqsUpTo(SeqsUpTo(Chars, MaxTitleChars), MaxTitles) : TotalLen(d) <= MaxTitleChars}

\* What axios.get(pageUrl) settles to.
PageResponses ==
  {[ok |-> FALSE, titles |-> <<>>]} \cup {[ok |-> TRUE, titles |-> d] : d \in Documents}

----------------------------------------------------------------------------
\* Library functions the program calls, computed as the libraries compute them.

IsSpace(c) == c = " "

\* String.prototype.trim: white space is removed from both ends only.
RECURSIVE TrimStart(_)
TrimStart(s) ==
  IF s = <<>> THEN s
  ELSE IF IsSpace(Head(s)) THEN TrimStart(Tail(s)) ELSE s

RECURSIVE TrimEnd(_)
TrimEnd(s) ==
  IF s = <<>> THEN s
  ELSE IF IsSpace(s[Len(s)]) THEN TrimEnd(SubSeq(s, 1, Len(s) - 1)) ELSE s

Trim(s) == TrimEnd(TrimStart(s))

\* cheerio's $('title').text(): the combined text of every matched element,
\* in document order; the empty string when nothing matches.
RECURSIVE Text(_)
Text(elems) == IF elems = <<>> THEN <<>> ELSE Head(elems) \o Text(Tail(elems))

\* xml2js.parseStringPromise followed by parsedData.urlset.url.map(url => url.loc[0]).
\* The promise rejects for malformed text; parsedData has no urlset property
\* when the root is another element; parsedData.urlset has no url property
\* when the urlset has no url child; a url object has no loc property when
\* the url has no loc child.  Reading a property of undefined throws.
ParseThrows(xml) ==
  \/ xml.kind = "malformed"
  \/ xml.kind = "other"
  \/ xml.kind = "urlset" /\ Len(xml.url) = 0
  \/ xml.kind = "urlset" /\ \E k \in 1..Len(xml.url) : Len(xml.url[k]) = 0

----------------------------------------------------------------------------
\* The program's functions.

fetchSitemapXml(resp) == IF resp.ok THEN resp.data ELSE Null

parseSitemapXml(xmlContent) ==
  IF ParseThrows(xmlContent)
  THEN Null
  ELSE Arr([k \in 1..Len(xmlContent.url) |-> xmlContent.url[k][1]])

getPageTitleFirstOnly(resp) ==
  IF ~resp.ok THEN Null
  ELSE IF resp.titles = <<>> THEN Null
  ELSE Str(Trim(resp.titles[1]))

getPageTitle(resp) ==
  IF resp.ok THEN Str(Trim(Text(resp.titles))) ELSE Null

----------------------------------------------------------------------------
\* State.

VARIABLES
  pc,          \* position in the top-level async function
  sitemapUrl,  \* process.argv[2]
  sitemapXml,  \* what fetchSitemapXml returned
  urls,        \* what parseSitemapXml returned
  titles,      \* the accumulator of processUrls
  i,           \* 1-based position of the for-of loop in urls
  response,    \* the response getPageTitle is working on
  pageTitle,   \* what getPageTitle returned for urls[i]
  requests,    \* every HTTP request issued so far, in order
  inflight,    \* the requests issued and not yet settled
  hist,        \* per processed URL: what came back and what was returned
  dirExists,   \* whether the output directory exists
  mkdirs,      \* successful fs.mkdirSync calls
  csv,         \* the output file
  writes,      \* calls of csvWriter.writeRecords
  fsFault,     \* which filesystem call failed, if any
  stdout,      \* console.log lines
  stderr       \* console.error lines

vars ==
  <<pc, sitemapUrl, sitemapXml, urls, titles, i, response, pageTitle, requests,
    inflight, hist, dirExists, mkdirs, csv, writes, fsFault, stdout, stderr>>

NoFile == [tag |-> "nofile"]
File(rows) == [tag |-> "file", rows |-> rows]

SitemapRequest == [kind |-> "sitemap", idx |-> 0, url |-> "sitemap"]
PageRequest(k, url) == [kind |-> "page", idx |-> k, url |-> url]

\* The columns of a record in header order: Page Title, URL.
Row(rec) == <<rec.pageTitle, rec.url>>

Init ==
  /\ pc = "start"
  /\ sitemapUrl \in Argv2
  /\ sitemapXml = Undefined
  /\ urls = Undefined
  /\ titles = <<>>
  /\ i = 1
  /\ response = Undefined
  /\ pageTitle = Undefined
  /\ requests = <<>>
  /\ inflight = {}
  /\ hist = <<>>
  /\ dirExists \in BOOLEAN
  /\ mkdirs = 0
  /\ csv = NoFile
  /\ writes = 0
  /\ fsFault = "none"
  /\ stdout = <<>>
  /\ stderr = <<>>

----------------------------------------------------------------------------
\* The top-level function up to processUrls.

CheckArgNoReturn ==
  /\ pc = "start"
  /\ stderr' = IF Truthy(sitemapUrl) THEN stderr ELSE Append(stderr, "no_arg")
  /\ pc' = "fetchSitemap"
  /\ UNCHANGED <<sitemapUrl, sitemapXml, urls, titles, i, response, pageTitle, requests,
                 inflight, hist, dirExists, mkdirs, csv, writes, fsFault, stdout>>

CheckArg ==
  /\ pc = "start"
  /\ IF Truthy(sitemapUrl)
     THEN pc' = "fetchSitemap" /\ stderr' = stderr
     ELSE pc' = "done" /\ stderr' = Append(stderr, "no_arg")
  /\ UNCHANGED <<sitemapUrl, sitemapXml, urls, titles, i, response, pageTitle, requests,
                 inflight, hist, dirExists, mkdirs, csv, writes, fsFault, stdout>>

FetchSitemapIssue ==
  /\ pc = "fetchSitemap"
  /\ requests' = Append(requests, SitemapRequest)
  /\ inflight' = inflight \cup {SitemapRequest}
  /\ pc' = "awaitSitemap"
  /\ UNCHANGED <<sitemapUrl, sitemapXml, urls, titles, i, response, pageTitle, hist,
                 dirExists, mkdirs, csv, writes, fsFault, stdout, stderr>>

FetchSitemapReturn ==
  /\ pc = "awaitSitemap"
  /\ \E resp \in SitemapResponses :
       /\ sitemapXml' = fetchSitemapXml(resp)
       /\ stderr' = IF resp.ok THEN stderr ELSE Append(stderr, "fetch_sitemap_error")
  /\ inflight' = inflight \ {SitemapRequest}
  /\ pc' = "checkSitemap"
  /\ UNCHANGED <<sitemapUrl, urls, titles, i, response, pageTitle, requests, hist,
                 dirExists, mkdirs, csv, writes, fsFault, stdout>>

CheckSitemap ==
  /\ pc = "checkSitemap"
  /\ IF Truthy(sitemapXml)
     THEN pc' = "parse" /\ stderr' = stderr
     ELSE pc' = "done" /\ stderr' = Append(stderr, "could_not_fetch")
  /\ UNCHANGED <<sitemapUrl, sitemapXml, urls, titles, i, response, pageTitle, requests,
                 inflight, hist, dirExists, mkdirs, csv, writes, fsFault, stdout>>

ParseSitemap ==
  /\ pc = "parse"
  /\ urls' = parseSitemapXml(sitemapXml)
  /\ stderr' = IF urls' = Null THEN Append(stderr, "parse_error") ELSE stderr
  /\ pc' = "checkUrls"
  /\ UNCHANGED <<sitemapUrl, sitemapXml, titles, i, response, pageTitle, requests,
                 inflight, hist, dirExists, mkdirs, csv, writes, fsFault, stdout>>

\* `urls || []` in place of the early return.
CheckUrlsNoReturn ==
  /\ pc = "checkUrls"
  /\ urls' = IF Truthy(urls) THEN urls ELSE Arr(<<>>)
  /\ stderr' = IF Truthy(urls) THEN stderr ELSE Append(stderr, "no_valid_urls")
  /\ pc' = "loop"
  /\ sitemapXml' = Undefined
  /\ titles' = <<>>
  /\ i' = 1
  /\ UNCHANGED <<sitemapUrl, response, pageTitle, requests, inflight, hist, dirExists,
                 mkdirs, csv, writes, fsFault, stdout>>

\* Lines 100-103, and the entry of processUrls (line 62).  The sitemap text
\* is not read again once the URLs are extracted.
CheckUrls ==
  /\ pc = "checkUrls"
  /\ IF Truthy(urls)
     THEN /\ pc' = "loop"
          /\ sitemapXml' = Undefined
          /\ titles' = <<>>
          /\ i' = 1
          /\ stderr' = stderr
     ELSE /\ pc' = "done"
          /\ stderr' = Append(stderr, "no_valid_urls")
          /\ UNCHANGED <<sitemapXml, titles, i>>
  /\ UNCHANGED <<sitemapUrl, urls, response, pageTitle, requests, inflight, hist,
                 dirExists, mkdirs, csv, writes, fsFault, stdout>>

----------------------------------------------------------------------------
\* processUrls.

\* urls.map(getPageTitle) before the loop: every request is issued at once.
LoopHeadParallel ==
  /\ pc = "loop"
  /\ IF i > Len(urls.val)
     THEN pc' = "mkdir" /\ UNCHANGED <<requests, inflight>>
     ELSE /\ pc' = "awaitPage"
          /\ IF i = 1
             THEN /\ requests' = requests \o [k \in 1..Len(urls.val) |-> PageRequest(k, urls.val[k])]
                  /\ inflight' = inflight \cup {PageRequest(k, urls.val[k]) : k \in 1..Len(urls.val)}
             ELSE UNCHANGED <<requests, inflight>>
  /\ UNCHANGED <<sitemapUrl, sitemapXml, urls, titles, i, response, pageTitle, hist,
                 dirExists, mkdirs, csv, writes, fsFault, stdout, stderr>>

\* Line 64 and the call at line 65 up to axios.get (line 46).
LoopHead ==
  /\ pc = "loop"
  /\ IF i > Len(urls.val)
     THEN pc' = "mkdir" /\ UNCHANGED <<requests, inflight>>
     ELSE /\ pc' = "awaitPage"
          /\ requests' = Append(requests, PageRequest(i, urls.val[i]))
          /\ inflight' = inflight \cup {PageRequest(i, urls.val[i])}
  /\ UNCHANGED <<sitemapUrl, sitemapXml, urls, titles, i, response, pageTitle, hist,
                 dirExists, mkdirs, csv, writes, fsFault, stdout, stderr>>

\* What is recorded of one processed URL: whether the fetch succeeded,
\* whether the page had a <title> element, whether any <title> element held a
\* character that is not white space, and what getPageTitle returned.
Outcome(url, resp, result) ==
  [url |-> url,
   fetched |-> resp.ok,
   hasTitle |-> resp.ok /\ resp.titles # <<>>,
   hasText |-> resp.ok /\ \E k \in 1..Len(resp.titles) :
                            \E j \in 1..Len(resp.titles[k]) : ~IsSpace(resp.titles[k][j]),
   pageTitle |-> result]

\* getPageTitle without its try/catch: a failed fetch reaches the catch of
\* the top-level function.
GetPageTitleReturnNoCatch ==
  /\ pc = "awaitPage"
  /\ \E resp \in PageResponses :
       /\ response' = resp
       /\ pageTitle' = IF resp.ok THEN getPageTitle(resp) ELSE Undefined
       /\ stderr' = IF resp.ok THEN stderr ELSE Append(stderr, "fatal")
       /\ hist' = Append(hist, Outcome(urls.val[i], resp, pageTitle'))
       /\ pc' = IF resp.ok THEN "push" ELSE "done"
  /\ inflight' = inflight \ {PageRequest(i, urls.val[i])}
  /\ UNCHANGED <<sitemapUrl, sitemapXml, urls, titles, i, requests, dirExists, mkdirs,
                 csv, writes, fsFault, stdout>>

\* Lines 46-53: the request settles and getPageTitle returns.
GetPageTitleReturn ==
  /\ pc = "awaitPage"
  /\ \E resp \in PageResponses :
       /\ response' = resp
       /\ pageTitle' = getPageTitle(resp)
       /\ stderr' = IF resp.ok THEN stderr ELSE Append(stderr, "page_error")
       /\ hist' = Append(hist, Outcome(urls.val[i], resp, pageTitle'))
  /\ inflight' = inflight \ {PageRequest(i, urls.val[i])}
  /\ pc' = "push"
  /\ UNCHANGED <<sitemapUrl, sitemapXml, urls, titles, i, requests, dirExists, mkdirs,
                 csv, writes, fsFault, stdout>>

\* `if (pageTitle !== null)` in place of `if (pageTitle)`.
PushTitleNotNull ==
  /\ pc = "push"
  /\ titles' = IF pageTitle # Null
               THEN Append(titles, [url |-> urls.val[i], pageTitle |-> pageTitle.val])
               ELSE titles
  /\ i' = i + 1
  /\ response' = Undefined
  /\ pageTitle' = Undefined
  /\ pc' = "loop"
  /\ UNCHANGED <<sitemapUrl, sitemapXml, urls, requests, inflight, hist, dirExists,
                 mkdirs, csv, writes, fsFault, stdout, stderr>>

\* titles.unshift in place of titles.push.
PushTitleUnshift ==
  /\ pc = "push"
  /\ titles' = IF Truthy(pageTitle)
               THEN <<[url |-> urls.val[i], pageTitle |-> pageTitle.val]>> \o titles
               ELSE titles
  /\ i' = i + 1
  /\ response' = Undefined
  /\ pageTitle' = Undefined
  /\ pc' = "loop"
  /\ UNCHANGED <<sitemapUrl, sitemapXml, urls, requests, inflight, hist, dirExists,
                 mkdirs, csv, writes, fsFault, stdout, stderr>>

\* A failed URL ends the loop (`else break`).
PushTitleBreak ==
  /\ pc = "push"
  /\ titles' = IF Truthy(pageTitle)
               THEN Append(titles, [url |-> urls.val[i], pageTitle |-> pageTitle.val])
               ELSE titles
  /\ i' = IF Truthy(pageTitle) THEN i + 1 ELSE Len(urls.val) + 1
  /\ response' = Undefined
  /\ pageTitle' = Undefined
  /\ pc' = "loop"
  /\ UNCHANGED <<sitemapUrl, sitemapXml, urls, requests, inflight, hist, dirExists,
                 mkdirs, csv, writes, fsFault, stdout, stderr>>

\* Lines 66-69: the record is pushed when the title is truthy, and the loop
\* moves on.  response and pageTitle go out of scope.
PushTitle ==
  /\ pc = "push"
  /\ titles' = IF Truthy(pageTitle)
               THEN Append(titles, [url |-> urls.val[i], pageTitle |-> pageTitle.val])
               ELSE titles
  /\ i' = i + 1
  /\ response' = Undefined
  /\ pageTitle' = Undefined
  /\ pc' = "loop"
  /\ UNCHANGED <<sitemapUrl, sitemapXml, urls, requests, inflight, hist, dirExists,
                 mkdirs, csv, writes, fsFault, stdout, stderr>>

----------------------------------------------------------------------------
\* The export.

\* Lines 113-116.  mkdirSync may throw; the top-level catch reports it.
MakeDir ==
  /\ pc = "mkdir"
  /\ \/ /\ dirExists
        /\ pc' = "write"
        /\ UNCHANGED <<dirExists, mkdirs, fsFault, stderr>>
     \/ /\ ~dirExists
        /\ dirExists' = TRUE
        /\ mkdirs' = mkdirs + 1
        /\ pc' = "write"
        /\ UNCHANGED <<fsFault, stderr>>
     \/ /\ ~dirExists
        /\ fsFault' = "mkdir"
        /\ stderr' = Append(stderr, "fatal")
        /\ pc' = "done"
        /\ UNCHANGED <<dirExists, mkdirs>>
  /\ UNCHANGED <<sitemapUrl, sitemapXml, urls, titles, i, response, pageTitle, requests,
                 inflight, hist, csv, writes, stdout>>

\* writeRecords is not awaited: its rejection is not seen by the function.
WriteRecordsNoAwait ==
  /\ pc = "write"
  /\ writes' = writes + 1
  /\ \/ /\ csv' = File([k \in 1..Len(titles) |-> Row(titles[k])])
        /\ UNCHANGED fsFault
     \/ /\ fsFault' = "write"
        /\ UNCHANGED csv
  /\ pc' = "confirm"
  /\ UNCHANGED <<sitemapUrl, sitemapXml, urls, titles, i, response, pageTitle, requests,
                 inflight, hist, dirExists, mkdirs, stdout, stderr>>

\* Lines 122-130.  writeRecords may reject; the top-level catch reports it.
WriteRecords ==
  /\ pc = "write"
  /\ writes' = writes + 1
  /\ \/ /\ csv' = File([k \in 1..Len(titles) |-> Row(titles[k])])
        /\ pc' = "confirm"
        /\ UNCHANGED <<fsFault, stderr>>
     \/ /\ fsFault' = "write"
        /\ stderr' = Append(stderr, "fatal")
        /\ pc' = "done"
        /\ UNCHANGED csv
  /\ UNCHANGED <<sitemapUrl, sitemapXml, urls, titles, i, response, pageTitle, requests,
                 inflight, hist, dirExists, mkdirs, stdout>>

\* Line 131.
Confirm ==
  /\ pc = "confirm"
  /\ stdout' = Append(stdout, "saved")
  /\ pc' = "done"
  /\ UNCHANGED <<sitemapUrl, sitemapXml, urls, titles, i, response, pageTitle, requests,
                 inflight, hist, dirExists, mkdirs, csv, writes, fsFault, stderr>>

----------------------------------------------------------------------------

Next ==
  \/ CheckArg
  \/ FetchSitemapIssue
  \/ FetchSitemapReturn
  \/ CheckSitemap
  \/ ParseSitemap
  \/ CheckUrls
  \/ LoopHead
  \/ GetPageTitleReturn
  \/ PushTitle
  \/ MakeDir
  \/ WriteRecords
  \/ Confirm

Spec == Init /\ [][Next]_vars

\* Every issued request settles and every continuation runs: the event loop
\* leaves no enabled step waiting forever.
FairSpec == Spec /\ WF_vars(Next)

----------------------------------------------------------------------------
\* Vocabulary of the properties.

Parsed == urls.tag = "arr"

Written == csv.tag = "file"

PageReqs == SelectSeq(requests, LAMBDA r : r.kind = "page")

SitemapFailed == "fetch_sitemap_error" \in Range(stderr) \/ "parse_error" \in Range(stderr)

RowsFor(u) == Cardinality({k \in 1..Len(csv.rows) : csv.rows[k][2] = u})

FetchedCount(u) == Cardinality({k \in 1..Len(hist) : hist[k].url = u /\ hist[k].fetched})

\* The positions of urls whose page came back with non-blank title text.
Extracted == {k \in 1..Len(hist) : hist[k].fetched /\ hist[k].hasText}

\* The rows the positions in K give, in ascending order of position.
RECURSIVE RowsOf(_, _)
RowsOf(K, n) ==
  IF n = 0 THEN <<>>
  ELSE IF n \in K
       THEN Append(RowsOf(K, n - 1), <<hist[n].pageTitle.val, urls.val[n]>>)
       ELSE RowsOf(K, n - 1)

\* t is s without its leading and trailing white space.
IsTrimOf(t, s) ==
  /\ \E a \in 0..Len(s) :
       /\ a + Len(t) <= Len(s)
       /\ t = SubSeq(s, a + 1, a + Len(t))
       /\ \A k \in 1..a : IsSpace(s[k])
       /\ \A k \in (a + Len(t) + 1)..Len(s) : IsSpace(s[k])
  /\ t # <<>> => ~IsSpace(t[1]) /\ ~IsSpace(t[Len(t)])

----------------------------------------------------------------------------
\* C1: when the sitemap was fetched and parsed and the filesystem does not
\* fail, a finished run has written the CSV whatever page fetches failed, no
\* URL has more rows than successful fetches, and a sitemap of one URL whose
\* fetch failed gives a file with zero rows.
C1_FailedFetchesLeaveNoRows ==
  (pc = "done" /\ Parsed /\ fsFault = "none") =>
    /\ Written
    /\ \A u \in PageUrls : RowsFor(u) <= FetchedCount(u)
    /\ (Len(urls.val) = 1 /\ ~hist[1].fetched) => csv.rows = <<>>

C1_Witness ==
  /\ pc = "done" /\ Written
  /\ Len(hist) = 2 /\ ~hist[1].fetched /\ hist[2].fetched
  /\ Len(csv.rows) = 1

\* C2 as stated: the number of rows of the written file is the number of URLs
\* whose page was fetched and had a <title> element, an empty one included.
C2_RowsCountPagesWithTitleElement ==
  (pc = "done" /\ Written) =>
    /\ Len(csv.rows) = Cardinality({k \in 1..Len(hist) : hist[k].fetched /\ hist[k].hasTitle})
    /\ Len(csv.rows) <= Len(urls.val)

\* C2 amended: the number of rows of the written file is the number of URLs
\* whose page was fetched and whose <title> text is not blank; it is at most
\* the number of URLs of the sitemap.
C2_RowsCountPagesWithTitleText ==
  (pc = "done" /\ Written) =>
    /\ Len(csv.rows) = Cardinality({k \in 1..Len(hist) : hist[k].fetched /\ hist[k].hasText})
    /\ Len(csv.rows) <= Len(urls.val)

C2_Witness ==
  /\ pc = "done" /\ Written
  /\ \E k \in 1..Len(hist) : hist[k].fetched /\ hist[k].hasTitle /\ ~hist[k].hasText
  /\ Len(csv.rows) = 1

\* C3: once the sitemap fetch or the sitemap parse has failed, no page was
\* or is requested, nothing is accumulated, no directory and no file is
\* created, nothing is confirmed, and the run is at or on its way to its end.
C3_SitemapFailureAborts ==
  SitemapFailed =>
    /\ PageReqs = <<>>
    /\ inflight = {}
    /\ hist = <<>>
    /\ titles = <<>>
    /\ mkdirs = 0
    /\ writes = 0
    /\ csv = NoFile
    /\ stdout = <<>>
    /\ pc \in {"checkSitemap", "checkUrls", "done"}

C3_Witness ==
  /\ pc = "done"
  /\ "parse_error" \in Range(stderr)
  /\ "no_valid_urls" \in Range(stderr)

\* C4 as stated: for a urlset without url children parseSitemapXml returns
\* the empty array, and the run does not end with 'No valid URLs found'.
C4_EmptyUrlsetParsesToEmpty ==
  (/\ pc \in {"checkUrls", "done"}
   /\ sitemapXml.tag = "xml"
   /\ sitemapXml.kind = "urlset"
   /\ sitemapXml.url = <<>>) =>
    /\ urls = Arr(<<>>)
    /\ "no_valid_urls" \notin Range(stderr)

\* C5: the rows of the written file are the records of the URLs whose title
\* was extracted, in sitemap order, one row per occurrence.
C5_RowsInSitemapOrder ==
  (pc = "done" /\ Written) => csv.rows = RowsOf(Extracted, Len(urls.val))

C5_Witness ==
  /\ pc = "done" /\ Written
  /\ Len(csv.rows) = 2
  /\ csv.rows[1][2] = csv.rows[2][2]
  /\ csv.rows[1][1] # csv.rows[2][1]

\* C6 as stated: getPageTitle returns null for a failed fetch and for a page
\* without <title>, and the trimmed text of the first <title> otherwise.
C6_NullWithoutTitleElement ==
  pc = "push" =>
    /\ (~response.ok \/ response.titles = <<>>) => pageTitle = Null
    /\ (response.ok /\ response.titles # <<>>) => pageTitle = Str(Trim(response.titles[1]))

\* C6 amended: getPageTitle returns null when the fetch failed; for a
\* fetched page it returns a string, never null: the text of all <title> elements of the
\* page joined in document order and stripped of leading and trailing white
\* space: the trimmed text of the <title> when there is exactly one, and the
\* empty string both for a page without <title> and for a page with an empty
\* <title>.
C6_NullOnlyOnFetchFailure ==
  pc = "push" =>
    /\ pageTitle = Null <=> ~response.ok
    /\ response.ok =>
         /\ pageTitle.tag = "str"
         /\ IsTrimOf(pageTitle.val, Text(response.titles))
         /\ Len(response.titles) = 1 => IsTrimOf(pageTitle.val, response.titles[1])
         /\ response.titles \in {<<>>, << <<>> >>} => pageTitle = Str(<<>>)

C6_Witness ==
  /\ pc = "push"
  /\ response.ok
  /\ response.titles = <<>>
  /\ pageTitle = Str(<<>>)

\* C7: started without a sitemap URL, the program reports the error and
\* ends; it issues no HTTP request and creates no directory and no file.
C7_NoArgumentNoWork ==
  ~Truthy(sitemapUrl) =>
    /\ requests = <<>>
    /\ inflight = {}
    /\ mkdirs = 0
    /\ writes = 0
    /\ csv = NoFile
    /\ stdout = <<>>
    /\ pc \in {"start", "done"}
    /\ pc = "done" => stderr = <<"no_arg">>

C7_Witness ==
  /\ pc = "done"
  /\ sitemapUrl = Undefined
  /\ stderr = <<"no_arg">>

\* C8: at most one request is outstanding; page requests are issued in
\* sitemap order; the request for a URL is issued only when every earlier
\* URL's request has settled and its result has been pushed or skipped.
C8_OneRequestAtATime ==
  /\ Cardinality(inflight) <= 1
  /\ PageReqs # <<>> => Parsed
  /\ Parsed =>
       /\ Len(PageReqs) <= Len(urls.val)
       /\ \A k \in 1..Len(PageReqs) : PageReqs[k] = PageRequest(k, urls.val[k])
       /\ Len(hist) <= Len(PageReqs)
       /\ Len(PageReqs) <= Len(hist) + 1
       /\ Len(PageReqs) = Len(hist) + 1 =>
            /\ pc = "awaitPage"
            /\ inflight = {PageReqs[Len(PageReqs)]}
            /\ i = Len(PageReqs)
       /\ pc = "loop" => Len(hist) = i - 1

C8_Witness ==
  /\ pc = "awaitPage"
  /\ Len(PageReqs) = 2
  /\ Len(hist) = 1
  /\ inflight = {PageReqs[2]}

\* C9: writeRecords is called at most once, and only when every URL has been
\* processed; the confirmation is printed only after the write succeeded;
\* when mkdirSync or writeRecords fails, the run ends with the error
\* reported, nothing confirmed and no second write.
C9_WriteOnceAfterAllUrls ==
  /\ writes <= 1
  /\ writes = 1 => Parsed /\ Len(hist) = Len(urls.val) /\ i = Len(urls.val) + 1
  /\ stdout # <<>> =>
       stdout = <<"saved">> /\ Written /\ writes = 1 /\ fsFault = "none" /\ pc = "done"
  /\ Written => writes = 1
  /\ fsFault # "none" =>
       /\ pc = "done"
       /\ stdout = <<>>
       /\ stderr[Len(stderr)] = "fatal"
       /\ writes = IF fsFault = "write" THEN 1 ELSE 0

C9_Witness ==
  /\ pc = "done"
  /\ fsFault = "write"
  /\ titles # <<>>

\* C10: every run ends, and a run whose sitemap was fetched and parsed has,
\* at its end, requested each URL occurrence of the sitemap exactly once, in
\* order, whatever requests failed.
C10_EndsWithEachUrlRequestedOnce ==
  /\ <>(pc = "done")
  /\ []((pc = "done" /\ Parsed) =>
          PageReqs = [k \in 1..Len(urls.val) |-> PageRequest(k, urls.val[k])])

C10_Witness ==
  /\ pc = "done"
  /\ Len(hist) = 2
  /\ ~hist[1].fetched
  /\ Len(PageReqs) = 2

====
